---- MODULE Spec2Model ----
(***************************************************************************)
(* Model of the PhysicalAssetDelivery ink! contract                         *)
(* (contracts/supply-chain/delivery.rs), specification Spec, and of the     *)
(* KombuchaRegistry pallet (src/pallet/registry.rs), specification          *)
(* SpecRegistry.  The two are separate programs: under Spec the pallet      *)
(* storage stays at genesis, under SpecRegistry the contract storage stays  *)
(* empty.                                                                   *)
(*                                                                          *)
(* Every message of the contract is one action.  The private helpers are    *)
(* operators that compute what the source computes (most of them are        *)
(* placeholders returning a default value, and are modelled as such).       *)
(* The storage Mappings are functions whose DOMAIN is the set of keys       *)
(* present.  The event sink of the environment is the sequence `events`.    *)
(* `last` records the most recent call (message, the key it was called     *)
(* with, returned value); it is how a property refers to the result of a   *)
(* call.                                                                    *)
(***************************************************************************)
EXTENDS Integers, Sequences, FiniteSets, TLC

VARIABLES
    shipments,               \* Mapping<ShipmentId, Shipment>
    fulfillment_orders,      \* Mapping<OrderId, FulfillmentOrder>
    delivery_verifications,  \* Mapping<ShipmentId, DeliveryVerification>
    warehouses,              \* Mapping<WarehouseId, WarehouseInfo>
    carriers,                \* Mapping<CarrierId, CarrierInfo>
    product_authentications, \* Mapping<ProductId, AuthenticationData>
    verification_keys,       \* Mapping<AccountId, DilithiumPublicKey>
    conditional_payments,    \* Mapping<ShipmentId, PaymentEscrow>
    events,                  \* events emitted through self.env().emit_event
    last,                    \* the last call and what it returned
    FermentationBatches,        \* map Vec<u8> => FermentationBatch
    FermentationConditionsList, \* map H256 => FermentationConditions
    BrewerBatches,              \* map AccountId => Vec<Vec<u8>>
    BatchCount,                 \* u64
    block_number                \* frame_system block number

vars == <<shipments, fulfillment_orders, delivery_verifications, warehouses,
          carriers, product_authentications, verification_keys,
          conditional_payments, events, last, FermentationBatches,
          FermentationConditionsList, BrewerBatches, BatchCount,
          block_number>>

\* The storage of the KombuchaRegistry pallet and the block number.
registry == <<FermentationBatches, FermentationConditionsList, BrewerBatches,
              BatchCount, block_number>>

stores == <<shipments, fulfillment_orders, delivery_verifications, warehouses,
            carriers, product_authentications, verification_keys,
            conditional_payments>>

----------------------------------------------------------------------------
(* Bounds and input domains *)

\* Successful calls are explored until the event log holds MaxEvents events.
MaxEvents == 4

\* T::default() of the identifier types
ShipmentIdDefault == 0
WarehouseIdDefault == 0
CarrierIdDefault == 0
AddressDefault == 0
SignatureDefault == 0
BalanceDefault == 0

ShipmentIds == {0, 1}
OrderIds == {1, 2}
ProductIds == {1, 2}
AccountIds == {1, 2}
Addresses == {1, 2}
Timestamps == {1}
ByteStrings == {<<>>, <<1>>}
Reports == {<<>>}

\* The keys the collaborators may have written before the first call.
KnownOrders == {1}
KnownProducts == {1}

----------------------------------------------------------------------------
(* Types *)

ShipmentStatus == {"Created", "InTransit", "Delivered", "Verified"}

EventType == {"PickedUp", "InTransit", "Delivered", "Exception"}

Error == {"ShipmentNotFound", "OrderNotFound", "ProductNotFound",
          "NotDelivered", "InvalidCarrier", "UnauthorizedAccess",
          "PaymentError"}

\* EscrowStatus is used by PaymentEscrow but declared nowhere in the
\* sources; its variants and its default are those of the specification.
EscrowStatus == {"Pending", "ConditionsMet", "Released", "Refunded"}

EscrowStatusDefault == "Pending"

\* TrackingEvent: the handlers read only its event_type.
TrackingEvents == [event_type : EventType]

\* A FulfillmentOrder as stored by the (out of scope) order catalog.
FulfillmentOrderDefault ==
    [products |-> <<>>, warehouse |-> WarehouseIdDefault, status |-> "Open"]

\* PaymentEscrow::default()
PaymentEscrowDefault ==
    [amount |-> BalanceDefault, conditions |-> <<>>,
     release_signatures |-> <<>>, status |-> EscrowStatusDefault]

----------------------------------------------------------------------------
(* Mapping *)

EmptyMapping == [k \in {} |-> k]

\* Mapping::insert(key, value)
Insert(m, key, value) ==
    [k \in DOMAIN m \cup {key} |-> IF k = key THEN value ELSE m[k]]

\* Mapping::get(key).is_some()
Contains(m, key) == key \in DOMAIN m

----------------------------------------------------------------------------
(* Helper functions.  A Result is a record: ok tells Ok from Err, val is    *)
(* the value of an Ok, err the error of an Err.                             *)

Ok(v) == [ok |-> TRUE, val |-> v]

Err(e) == [ok |-> FALSE, err |-> e]

select_warehouse(order, requirements) == Ok(WarehouseIdDefault)

select_carrier(warehouse_id, destination, requirements) == Ok(CarrierIdDefault)

verify_carrier_auth(account, carrier_id) == Ok(TRUE)

generate_shipment_id == ShipmentIdDefault

generate_quantum_seal(order) == <<>>

setup_payment_escrow(shipment_id, order, requirements) ==
    Ok(PaymentEscrowDefault)

\* Works on the caller's local copy of the escrow and leaves it as it is.
check_payment_conditions(escrow, shipment, event) == Ok(escrow)

\* Works on the caller's local copy of the escrow and leaves it as it is.
process_payment_release(escrow, verification) == Ok(escrow)

sign_delivery_verification(shipment_id, proof, condition_report) ==
    SignatureDefault

verify_product_authenticity(auth_info, authentication_data) == Ok(TRUE)

get_verifier_location == Ok(AddressDefault)

----------------------------------------------------------------------------
(* Initial state *)

\* decl_storage defaults: the three maps hold no key, BatchCount is 0; the
\* chain is at block 0.
Genesis ==
    /\ FermentationBatches = EmptyMapping
    /\ FermentationConditionsList = EmptyMapping
    /\ BrewerBatches = EmptyMapping
    /\ BatchCount = 0
    /\ block_number = 0

\* new() leaves every Mapping empty.  The order catalog, the carrier
\* directory and the product authentication data are written by
\* collaborators outside the contract, so a run starts from any content of
\* these three (the empty one included).
Init ==
    /\ shipments = EmptyMapping
    /\ delivery_verifications = EmptyMapping
    /\ conditional_payments = EmptyMapping
    /\ warehouses = EmptyMapping
    /\ verification_keys = EmptyMapping
    /\ \E D \in SUBSET KnownOrders :
           fulfillment_orders = [o \in D |-> FulfillmentOrderDefault]
    /\ \E D \in SUBSET {CarrierIdDefault} : \E a \in BOOLEAN :
           carriers = [c \in D |-> [active |-> a]]
    /\ \E D \in SUBSET KnownProducts :
           product_authentications =
               [p \in D |-> [product_hash |-> 0, manufacturer_proof |-> <<>>,
                             authentication_history |-> <<>>]]
    /\ events = <<>>
    /\ last = [op |-> "new", result |-> "Ok"]
    /\ Genesis

----------------------------------------------------------------------------
(* The steps of the messages *)

\* Variant: a missing order is read as the default order
\* (get(..).unwrap_or_default()).
get_order_or_default(orders, order_id) ==
    IF Contains(orders, order_id) THEN Ok(orders[order_id])
    ELSE Ok(FulfillmentOrderDefault)

\* self.fulfillment_orders.get(order_id).ok_or(Error::OrderNotFound)
get_order(orders, order_id) ==
    IF Contains(orders, order_id) THEN Ok(orders[order_id])
    ELSE Err("OrderNotFound")

\* Variant: a missing shipment is read as a freshly created one
\* (get(..).unwrap_or_default()).
get_shipment_or_default(store, shipment_id) ==
    IF Contains(store, shipment_id) THEN Ok(store[shipment_id])
    ELSE Ok([order_id |-> 0, status |-> "Created",
             origin |-> WarehouseIdDefault, destination |-> AddressDefault,
             carrier |-> CarrierIdDefault, tracking_data |-> <<>>,
             quantum_seal |-> <<>>])

\* self.shipments.get(shipment_id).ok_or(Error::ShipmentNotFound)
get_shipment(store, shipment_id) ==
    IF Contains(store, shipment_id) THEN Ok(store[shipment_id])
    ELSE Err("ShipmentNotFound")

\* Variant: a missing product is read as empty authentication data
\* (get(..).unwrap_or_default()).
get_authentication_or_default(store, product_id) ==
    IF Contains(store, product_id) THEN Ok(store[product_id])
    ELSE Ok([product_hash |-> 0, manufacturer_proof |-> <<>>,
             authentication_history |-> <<>>])

\* self.product_authentications.get(product_id).ok_or(Error::ProductNotFound)
get_authentication(store, product_id) ==
    IF Contains(store, product_id) THEN Ok(store[product_id])
    ELSE Err("ProductNotFound")

\* Variant: the event carries a flag that is never set.
product_authenticated_unset(product_id, authentic, verifier) ==
    [event |-> "ProductAuthenticated",
     product_id |-> product_id,
     authentic |-> FALSE,
     verifier |-> verifier]

\* The ProductAuthenticated event of authenticate_product.
product_authenticated(product_id, authentic, verifier) ==
    [event |-> "ProductAuthenticated",
     product_id |-> product_id,
     authentic |-> authentic,
     verifier |-> verifier]

\* Variant: the history is replaced by the new event.
record_authentication_only(auth_info, event) ==
    [auth_info EXCEPT !.authentication_history = <<event>>]

\* auth_info.authentication_history.push(event)
record_authentication(auth_info, event) ==
    [auth_info EXCEPT !.authentication_history = Append(@, event)]

\* Variant: the escrow that was set up is not stored.
store_escrow_dropped(escrows, shipment_id, escrow) == escrows

\* self.conditional_payments.insert(shipment_id, &escrow) of create_shipment
store_escrow(escrows, shipment_id, escrow) ==
    Insert(escrows, shipment_id, escrow)

\* Variant: the shipment is created already in transit.
new_shipment_moved(order_id, warehouse_id, destination, carrier_id, quantum_seal) ==
    [order_id |-> order_id,
     status |-> "InTransit",
     origin |-> warehouse_id,
     destination |-> destination,
     carrier |-> carrier_id,
     tracking_data |-> <<>>,
     quantum_seal |-> quantum_seal]

\* The Shipment literal of create_shipment.
new_shipment(order_id, warehouse_id, destination, carrier_id, quantum_seal) ==
    [order_id |-> order_id,
     status |-> "Created",
     origin |-> warehouse_id,
     destination |-> destination,
     carrier |-> carrier_id,
     tracking_data |-> <<>>,
     quantum_seal |-> quantum_seal]

\* Variant: an InTransit event also puts the shipment in transit.
status_after_in_transit(status, event_type) ==
    CASE event_type = "PickedUp" -> "InTransit"
      [] event_type = "InTransit" -> "InTransit"
      [] event_type = "Delivered" -> "Delivered"
      [] OTHER -> status

\* The match of update_shipment_status: the status an event gives a shipment.
status_after(status, event_type) ==
    CASE event_type = "PickedUp" -> "InTransit"
      [] event_type = "Delivered" -> "Delivered"
      [] OTHER -> status

\* The shipment after push(event) and the status match.
apply_event(shipment, event) ==
    [shipment EXCEPT !.tracking_data = Append(@, event),
                     !.status = status_after(@, event.event_type)]

\* Variant: the status of the shipment is not looked at.
check_delivered_skipped(shipment) == Ok(TRUE)

\* "if shipment.status != ShipmentStatus::Delivered { return Err(NotDelivered) }"
check_delivered(shipment) ==
    IF shipment.status # "Delivered" THEN Err("NotDelivered") ELSE Ok(TRUE)

\* Variant: any event marks the conditions of the stored escrow as met.
escrow_check_met(escrows, shipment_id, shipment, event) ==
    IF Contains(escrows, shipment_id)
    THEN Ok(Insert(escrows, shipment_id,
                   [escrows[shipment_id] EXCEPT !.status = "ConditionsMet"]))
    ELSE Ok(escrows)

\* Variant: a Delivered event releases the stored escrow at once.
escrow_check_releases(escrows, shipment_id, shipment, event) ==
    IF Contains(escrows, shipment_id) /\ event.event_type = "Delivered"
    THEN Ok(Insert(escrows, shipment_id,
                   [escrows[shipment_id] EXCEPT !.status = "Released"]))
    ELSE Ok(escrows)

\* "if let Some(mut escrow) = self.conditional_payments.get(shipment_id)
\*  { self.check_payment_conditions(&mut escrow, &shipment, &event)?; }":
\* the Result of the block, and the escrow store after it.  escrow is a
\* decoded copy of the stored value and is not inserted again, so the store
\* is what it was.
escrow_check(escrows, shipment_id, shipment, event) ==
    IF Contains(escrows, shipment_id)
    THEN LET r == check_payment_conditions(escrows[shipment_id], shipment, event)
         IN IF r.ok THEN Ok(escrows) ELSE r
    ELSE Ok(escrows)

\* Variant: the verification releases the stored escrow.
escrow_release_stored(escrows, shipment_id, verification) ==
    IF Contains(escrows, shipment_id)
    THEN Ok(Insert(escrows, shipment_id,
                   [escrows[shipment_id] EXCEPT !.status = "Released"]))
    ELSE Ok(escrows)

\* "if let Some(mut escrow) = self.conditional_payments.get(shipment_id)
\*  { self.process_payment_release(&mut escrow, &verification)?; }":
\* as escrow_check.
escrow_release(escrows, shipment_id, verification) ==
    IF Contains(escrows, shipment_id)
    THEN LET r == process_payment_release(escrows[shipment_id], verification)
         IN IF r.ok THEN Ok(escrows) ELSE r
    ELSE Ok(escrows)

----------------------------------------------------------------------------
(* Messages.  Each is the whole handler: lookups, checks, writes, event.    *)
(* The helpers called after a write (setup_payment_escrow,                  *)
(* check_payment_conditions, process_payment_release) return Ok always, so  *)
(* no run returns an Err after a write; the branches are kept for the shape *)
(* of the code, with the writes of the failed call reverted by the runtime. *)

create_shipment(caller, order_id, destination, requirements) ==
    LET call == [op |-> "create_shipment", order_id |-> order_id]
        found == get_order(fulfillment_orders, order_id)
    IN
    IF ~found.ok
    THEN /\ last' = call @@ [result |-> found.err]
         /\ UNCHANGED <<stores, events>>
    ELSE
    LET order == found.val
        warehouse == select_warehouse(order, requirements)
        warehouse_id == warehouse.val
        carrier == select_carrier(warehouse_id, destination, requirements)
        carrier_id == carrier.val
        shipment_id == generate_shipment_id
        quantum_seal == generate_quantum_seal(order)
        shipment == new_shipment(order_id, warehouse_id, destination,
                                 carrier_id, quantum_seal)
        escrow == setup_payment_escrow(shipment_id, order, requirements)
    IN
    IF ~warehouse.ok
    THEN /\ last' = call @@ [result |-> warehouse.err]
         /\ UNCHANGED <<stores, events>>
    ELSE IF ~carrier.ok
    THEN /\ last' = call @@ [result |-> carrier.err]
         /\ UNCHANGED <<stores, events>>
    ELSE IF ~escrow.ok
    THEN /\ last' = call @@ [result |-> escrow.err]
         /\ UNCHANGED <<stores, events>>
    ELSE
    /\ Len(events) < MaxEvents
    /\ shipments' = Insert(shipments, shipment_id, shipment)
    /\ conditional_payments' =
           store_escrow(conditional_payments, shipment_id, escrow.val)
    /\ events' = Append(events, [event |-> "ShipmentCreated",
                                 shipment_id |-> shipment_id,
                                 order_id |-> order_id,
                                 warehouse |-> warehouse_id,
                                 carrier |-> carrier_id])
    /\ last' = call @@ [result |-> "Ok", shipment_id |-> shipment_id]
    /\ UNCHANGED <<fulfillment_orders, delivery_verifications, warehouses,
                   carriers, product_authentications, verification_keys>>

\* Variant: the updated shipment is written under the other shipment id.
store_shipment_misfiled(store, shipment_id, shipment) == Insert(store, 1 - shipment_id, shipment)

\* self.shipments.insert(shipment_id, &shipment) of update_shipment_status
store_shipment(store, shipment_id, shipment) ==
    Insert(store, shipment_id, shipment)

update_shipment_status(caller, shipment_id, event) ==
    LET call == [op |-> "update_shipment_status",
                 shipment_id |-> shipment_id, event |-> event]
        found == get_shipment(shipments, shipment_id)
    IN
    IF ~found.ok
    THEN /\ last' = call @@ [result |-> found.err]
         /\ UNCHANGED <<stores, events>>
    ELSE
    LET auth == verify_carrier_auth(caller, found.val.carrier)
        shipment == apply_event(found.val, event)
        escrows == escrow_check(conditional_payments, shipment_id,
                                shipment, event)
    IN
    IF ~auth.ok
    THEN /\ last' = call @@ [result |-> auth.err]
         /\ UNCHANGED <<stores, events>>
    ELSE IF ~escrows.ok
    THEN /\ last' = call @@ [result |-> escrows.err]
         /\ UNCHANGED <<stores, events>>
    ELSE
    /\ Len(events) < MaxEvents
    /\ shipments' = store_shipment(shipments, shipment_id, shipment)
    /\ conditional_payments' = escrows.val
    /\ events' = Append(events, [event |-> "ShipmentUpdated",
                                 shipment_id |-> shipment_id,
                                 status |-> shipment.status,
                                 event_type |-> event.event_type])
    /\ last' = call @@ [result |-> "Ok"]
    /\ UNCHANGED <<fulfillment_orders, delivery_verifications, warehouses,
                   carriers, product_authentications, verification_keys>>

\* Variant: the record is inserted before the status is checked, and the
\* NotDelivered return leaves it in the store.
verify_delivery_record_first(caller, now, shipment_id, proof, condition_report) ==
    LET call == [op |-> "verify_delivery", shipment_id |-> shipment_id]
        found == get_shipment(shipments, shipment_id)
    IN
    IF ~found.ok
    THEN /\ last' = call @@ [result |-> found.err]
         /\ UNCHANGED <<stores, events>>
    ELSE
    LET delivered == check_delivered(found.val)
        verification ==
            [proof_of_delivery |-> proof,
             verifier_signature |->
                 sign_delivery_verification(shipment_id, proof, condition_report),
             completion_time |-> now,
             condition_report |-> condition_report]
    IN
    /\ delivered.ok => Len(events) < MaxEvents
    /\ delivery_verifications' =
           Insert(delivery_verifications, shipment_id, verification)
    /\ events' = IF delivered.ok
                 THEN Append(events, [event |-> "DeliveryVerified",
                                      shipment_id |-> shipment_id,
                                      verifier |-> caller,
                                      timestamp |-> now])
                 ELSE events
    /\ last' = call @@ [result |-> IF delivered.ok THEN "Ok" ELSE delivered.err]
    /\ UNCHANGED <<shipments, fulfillment_orders, warehouses, carriers,
                   product_authentications, verification_keys,
                   conditional_payments>>

verify_delivery(caller, now, shipment_id, proof, condition_report) ==
    LET call == [op |-> "verify_delivery", shipment_id |-> shipment_id]
        found == get_shipment(shipments, shipment_id)
    IN
    IF ~found.ok
    THEN /\ last' = call @@ [result |-> found.err]
         /\ UNCHANGED <<stores, events>>
    ELSE
    LET delivered == check_delivered(found.val)
        verifier_signature ==
            sign_delivery_verification(shipment_id, proof, condition_report)
        verification == [proof_of_delivery |-> proof,
                         verifier_signature |-> verifier_signature,
                         completion_time |-> now,
                         condition_report |-> condition_report]
        escrows == escrow_release(conditional_payments, shipment_id,
                                  verification)
    IN
    IF ~delivered.ok
    THEN /\ last' = call @@ [result |-> delivered.err]
         /\ UNCHANGED <<stores, events>>
    ELSE IF ~escrows.ok
    THEN /\ last' = call @@ [result |-> escrows.err]
         /\ UNCHANGED <<stores, events>>
    ELSE
    /\ Len(events) < MaxEvents
    /\ delivery_verifications' =
           Insert(delivery_verifications, shipment_id, verification)
    /\ conditional_payments' = escrows.val
    /\ events' = Append(events, [event |-> "DeliveryVerified",
                                 shipment_id |-> shipment_id,
                                 verifier |-> caller,
                                 timestamp |-> now])
    /\ last' = call @@ [result |-> "Ok"]
    /\ UNCHANGED <<shipments, fulfillment_orders, warehouses, carriers,
                   product_authentications, verification_keys>>

authenticate_product(caller, now, product_id, authentication_data) ==
    LET call == [op |-> "authenticate_product", product_id |-> product_id]
        found == get_authentication(product_authentications, product_id)
    IN
    IF ~found.ok
    THEN /\ last' = call @@ [result |-> found.err]
         /\ UNCHANGED <<stores, events>>
    ELSE
    LET auth_info == found.val
        checked == verify_product_authenticity(auth_info, authentication_data)
        authentic == checked.val
        location == get_verifier_location
        event == [timestamp |-> now,
                  location |-> location.val,
                  verifier |-> caller]
    IN
    IF ~checked.ok
    THEN /\ last' = call @@ [result |-> checked.err]
         /\ UNCHANGED <<stores, events>>
    ELSE IF authentic /\ ~location.ok
    THEN /\ last' = call @@ [result |-> location.err]
         /\ UNCHANGED <<stores, events>>
    ELSE
    /\ Len(events) < MaxEvents
    /\ IF authentic
       THEN product_authentications' =
                Insert(product_authentications, product_id,
                       record_authentication(auth_info, event))
       ELSE UNCHANGED product_authentications
    /\ events' = Append(events,
                        product_authenticated(product_id, authentic, caller))
    /\ last' = call @@ [result |-> "Ok", value |-> authentic]
    /\ UNCHANGED <<shipments, fulfillment_orders, delivery_verifications,
                   warehouses, carriers, verification_keys,
                   conditional_payments>>

----------------------------------------------------------------------------
(* Specification *)

CreateShipment ==
    \E caller \in AccountIds, order_id \in OrderIds, destination \in Addresses :
        /\ create_shipment(caller, order_id, destination, "requirements")
        /\ UNCHANGED registry

UpdateShipmentStatus ==
    \E caller \in AccountIds, shipment_id \in ShipmentIds,
       event \in TrackingEvents :
        /\ update_shipment_status(caller, shipment_id, event)
        /\ UNCHANGED registry

VerifyDelivery ==
    \E caller \in AccountIds, now \in Timestamps, shipment_id \in ShipmentIds,
       proof \in ByteStrings, condition_report \in Reports :
        /\ verify_delivery(caller, now, shipment_id, proof, condition_report)
        /\ UNCHANGED registry

AuthenticateProduct ==
    \E caller \in AccountIds, now \in Timestamps, product_id \in ProductIds,
       authentication_data \in ByteStrings :
        /\ authenticate_product(caller, now, product_id, authentication_data)
        /\ UNCHANGED registry

Next ==
    \/ CreateShipment
    \/ UpdateShipmentStatus
    \/ VerifyDelivery
    \/ AuthenticateProduct

Spec == Init /\ [][Next]_vars

----------------------------------------------------------------------------
(* Properties.  In a step that is not a stuttering step, last' is the call  *)
(* the step made, the unprimed variables are the state before the call and  *)
(* the primed ones the state after it.                                      *)

\* The position of a shipment status in Created < InTransit < Delivered < Verified.
Rank(status) ==
    CASE status = "Created" -> 0
      [] status = "InTransit" -> 1
      [] status = "Delivered" -> 2
      [] status = "Verified" -> 3

IsCreated(e, s) == e.event = "ShipmentCreated" /\ e.shipment_id = s

IsUpdated(e, s, event_type) ==
    e.event = "ShipmentUpdated" /\ e.shipment_id = s /\ e.event_type = event_type

IsVerified(e, s) == e.event = "DeliveryVerified" /\ e.shipment_id = s

\* An update_shipment_status call with a Delivered event has succeeded for s.
DeliveredEventSeen(s) ==
    \E i \in 1..Len(events) : IsUpdated(events[i], s, "Delivered")

\* A verify_delivery call has succeeded for s.
VerifySucceeded(s) == \E i \in 1..Len(events) : IsVerified(events[i], s)

\* The carrier is in the directory and is not active.
CarrierInactive(carrier_id) ==
    Contains(carriers, carrier_id) /\ ~carriers[carrier_id].active

\* C1: in every step that keeps a shipment (update_shipment_status,
\* verify_delivery; a create_shipment step stores a new shipment), the
\* status of the shipment is at least what it was, in the order
\* Created < InTransit < Delivered < Verified.
C1_StatusNeverRegresses ==
    [][last'.op # "create_shipment" =>
          \A s \in DOMAIN shipments :
              s \in DOMAIN shipments' =>
                  Rank(shipments'[s].status) >= Rank(shipments[s].status)]_vars

\* C2: an escrow whose stored status is Released belongs to a shipment id
\* for which both a Delivered update and a verify_delivery call have
\* succeeded before (so neither a carrier's call alone nor a verifier's call
\* alone releases an escrow).
C2_ReleasedNeedsBoth ==
    \A s \in DOMAIN conditional_payments :
        conditional_payments[s].status = "Released" =>
            DeliveredEventSeen(s) /\ VerifySucceeded(s)

\* C2 witness: the carrier's Delivered update has just succeeded for a
\* shipment with an escrow, no verify_delivery has, and the escrow is not
\* Released.
C2_Witness ==
    /\ last.op = "update_shipment_status"
    /\ last.result = "Ok"
    /\ last.event.event_type = "Delivered"
    /\ Contains(conditional_payments, last.shipment_id)
    /\ DeliveredEventSeen(last.shipment_id)
    /\ ~VerifySucceeded(last.shipment_id)
    /\ conditional_payments[last.shipment_id].status # "Released"

\* C3: a verify_delivery call on a stored shipment whose status is not
\* Delivered returns NotDelivered and leaves the verification store, the
\* escrow store and the event log as they were.
C3_VerifyBeforeDelivery ==
    [][(/\ last'.op = "verify_delivery"
        /\ Contains(shipments, last'.shipment_id)
        /\ shipments[last'.shipment_id].status # "Delivered")
       => (/\ last'.result = "NotDelivered"
           /\ UNCHANGED <<delivery_verifications, conditional_payments,
                          events>>)]_vars

\* C3 witness: verify_delivery has just been refused on a stored shipment
\* that is in transit.
C3_Witness ==
    /\ last.op = "verify_delivery"
    /\ last.result = "NotDelivered"
    /\ Contains(shipments, last.shipment_id)
    /\ shipments[last.shipment_id].status = "InTransit"

\* C4: a verify_delivery call for a shipment id for which a verify_delivery
\* call has already succeeded does not succeed.
C4_VerifySingleShot ==
    [][(last'.op = "verify_delivery" /\ VerifySucceeded(last'.shipment_id))
       => last'.result # "Ok"]_vars

\* C5: an update_shipment_status call on a stored shipment whose carrier is
\* inactive fails with UnauthorizedAccess or InvalidCarrier and leaves the
\* shipment store as it was.
C5_UnauthorizedUpdateRejected ==
    [][(/\ last'.op = "update_shipment_status"
        /\ Contains(shipments, last'.shipment_id)
        /\ CarrierInactive(shipments[last'.shipment_id].carrier))
       => (/\ last'.result \in {"UnauthorizedAccess", "InvalidCarrier"}
           /\ shipments' = shipments)]_vars

\* C6: a create_shipment call with an order id that is not in the order
\* catalog returns OrderNotFound and leaves the shipment store and the
\* escrow store as they were.
C6_UnknownOrderRejected ==
    [][(/\ last'.op = "create_shipment"
        /\ ~Contains(fulfillment_orders, last'.order_id))
       => (/\ last'.result = "OrderNotFound"
           /\ UNCHANGED <<shipments, conditional_payments>>)]_vars

\* C6 witness: create_shipment has just been refused for an order that is
\* not in the catalog, while a shipment and an escrow of an earlier call are
\* stored.
C6_Witness ==
    /\ last.op = "create_shipment"
    /\ last.result = "OrderNotFound"
    /\ ~Contains(fulfillment_orders, last.order_id)
    /\ DOMAIN shipments # {}
    /\ DOMAIN conditional_payments # {}

\* C7: an authenticate_product call with a product id that has no
\* AuthenticationData returns ProductNotFound and leaves the authentication
\* data of every product (their histories included) as it was.
C7_UnknownProductRejected ==
    [][(/\ last'.op = "authenticate_product"
        /\ ~Contains(product_authentications, last'.product_id))
       => (/\ last'.result = "ProductNotFound"
           /\ product_authentications' = product_authentications)]_vars

\* C7 witness: authenticate_product has just been refused for an unknown
\* product while another product is known.
C7_Witness ==
    /\ last.op = "authenticate_product"
    /\ last.result = "ProductNotFound"
    /\ ~Contains(product_authentications, last.product_id)
    /\ DOMAIN product_authentications # {}

\* C8: after a successful create_shipment the returned shipment id holds a
\* shipment with status Created and no tracking event, and an escrow with
\* status Pending.
C8_CreatedShipmentAndEscrow ==
    (last.op = "create_shipment" /\ last.result = "Ok") =>
        /\ Contains(shipments, last.shipment_id)
        /\ shipments[last.shipment_id].status = "Created"
        /\ shipments[last.shipment_id].tracking_data = <<>>
        /\ Contains(conditional_payments, last.shipment_id)
        /\ conditional_payments[last.shipment_id].status = "Pending"

\* C8 witness: create_shipment has just succeeded.
C8_Witness ==
    /\ last.op = "create_shipment"
    /\ last.result = "Ok"
    /\ Contains(shipments, last.shipment_id)

\* C9: when the event log is exactly ShipmentCreated, PickedUp for a
\* shipment, its escrow is Pending; when it is exactly ShipmentCreated,
\* PickedUp, Delivered, its escrow is ConditionsMet.
C9_ScenarioEscrow ==
    \A s \in DOMAIN conditional_payments :
        /\ (/\ Len(events) = 2
            /\ IsCreated(events[1], s)
            /\ IsUpdated(events[2], s, "PickedUp"))
           => conditional_payments[s].status = "Pending"
        /\ (/\ Len(events) = 3
            /\ IsCreated(events[1], s)
            /\ IsUpdated(events[2], s, "PickedUp")
            /\ IsUpdated(events[3], s, "Delivered"))
           => conditional_payments[s].status = "ConditionsMet"

C11_ShipmentIdsCollisionFree ==
    [][(last'.op = "create_shipment" /\ last'.result = "Ok")
       => (/\ ~Contains(shipments, last'.shipment_id)
           /\ ~Contains(conditional_payments, last'.shipment_id))]_vars

\* C12: a DeliveryVerification record that is stored stays stored, with the
\* same proof, signature, completion time and condition report, in every
\* step.
C12_VerificationImmutable ==
    [][\A s \in DOMAIN delivery_verifications :
          /\ s \in DOMAIN delivery_verifications'
          /\ delivery_verifications'[s] = delivery_verifications[s]]_vars

\* The position of an escrow status in Pending < ConditionsMet < Released,
\* Refunded.
EscrowRank(status) ==
    CASE status = "Pending" -> 0
      [] status = "ConditionsMet" -> 1
      [] status = "Released" -> 2
      [] status = "Refunded" -> 2

\* C13: in every step, the status of every stored escrow is at least what
\* it was in the order Pending < ConditionsMet < Released, Refunded, and an
\* escrow that is Released or Refunded keeps its status.
C13_EscrowForwardOnly ==
    [][\A s \in DOMAIN conditional_payments :
          /\ s \in DOMAIN conditional_payments'
          /\ EscrowRank(conditional_payments'[s].status)
                 >= EscrowRank(conditional_payments[s].status)
          /\ conditional_payments[s].status \in {"Released", "Refunded"}
                 => conditional_payments'[s].status
                        = conditional_payments[s].status]_vars

\* C13 witness: every operation that reads or writes the escrow of a
\* shipment id has acted on it (Delivered update, verify_delivery, then a
\* create_shipment that stores an escrow under the id again).
C13_Witness ==
    /\ last.op = "create_shipment"
    /\ last.result = "Ok"
    /\ DeliveredEventSeen(last.shipment_id)
    /\ VerifySucceeded(last.shipment_id)
    /\ Contains(conditional_payments, last.shipment_id)

\* C14: a call that returns an error leaves every store and the event log
\* as they were before the call.
C14_NoPartialStateOnError ==
    [][last'.result # "Ok" => UNCHANGED <<stores, events>>]_vars

\* C14 witness: a call has just returned an error from a check that comes
\* after its first lookup (verify_delivery refused with NotDelivered), with
\* a shipment, an escrow and events of earlier calls in place.
C14_Witness ==
    /\ last.op = "verify_delivery"
    /\ last.result = "NotDelivered"
    /\ DOMAIN shipments # {}
    /\ DOMAIN conditional_payments # {}
    /\ Len(events) >= 2

\* C15: a successful update_shipment_status stores InTransit for a PickedUp
\* event, Delivered for a Delivered event and the status the shipment had
\* for an InTransit or Exception event; and an InTransit or Exception event
\* applied to a stored shipment is not refused.
C15_StatusByEventType ==
    [][(last'.op = "update_shipment_status"
        /\ Contains(shipments, last'.shipment_id))
       => LET s == last'.shipment_id
              event_type == last'.event.event_type
          IN /\ event_type \in {"InTransit", "Exception"}
                    => last'.result = "Ok"
             /\ last'.result = "Ok"
                    => /\ Contains(shipments', s)
                       /\ shipments'[s].status =
                              IF event_type = "PickedUp" THEN "InTransit"
                              ELSE IF event_type = "Delivered" THEN "Delivered"
                              ELSE shipments[s].status]_vars

\* C15 witness: an InTransit event has just been applied to a Delivered
\* shipment, which is still Delivered.
C15_Witness ==
    /\ last.op = "update_shipment_status"
    /\ last.result = "Ok"
    /\ last.event.event_type = "InTransit"
    /\ shipments[last.shipment_id].status = "Delivered"

\* a is a prefix of b.
IsPrefix(a, b) == Len(a) <= Len(b) /\ SubSeq(b, 1, Len(a)) = a

\* C16: in every step the tracking sequence of every stored shipment id is
\* a prefix of the one stored after the step, and a successful
\* update_shipment_status stores the old sequence with its event added at
\* the end.
C16_TrackingAppendOnly ==
    [][/\ \A s \in DOMAIN shipments :
             /\ s \in DOMAIN shipments'
             /\ IsPrefix(shipments[s].tracking_data,
                         shipments'[s].tracking_data)
       /\ (last'.op = "update_shipment_status" /\ last'.result = "Ok")
              => shipments'[last'.shipment_id].tracking_data =
                     Append(shipments[last'.shipment_id].tracking_data,
                            last'.event)]_vars

\* C17: in every step the history of every product keeps its entries in
\* place; an authenticate_product call that returns true adds exactly one
\* entry at the end of the history of its product, and every other step
\* leaves every history as it was.
C17_HistoryOnlyGrows ==
    [][\A p \in DOMAIN product_authentications :
          /\ p \in DOMAIN product_authentications'
          /\ LET old == product_authentications[p].authentication_history
                 new == product_authentications'[p].authentication_history
             IN IF /\ last'.op = "authenticate_product"
                   /\ last'.product_id = p
                   /\ last'.result = "Ok"
                   /\ last'.value
                THEN Len(new) = Len(old) + 1 /\ IsPrefix(old, new)
                ELSE new = old]_vars

\* C17 witness: authenticate_product has just returned true for a product
\* that already had an entry, and the history holds two entries.
C17_Witness ==
    /\ last.op = "authenticate_product"
    /\ last.result = "Ok"
    /\ last.value
    /\ Len(product_authentications[last.product_id].authentication_history) = 2

\* C18: an authenticate_product call on a known product returns a boolean
\* and adds exactly one event to the log, a ProductAuthenticated event for
\* the product whose authentic flag is the boolean returned.
C18_OneAuthenticatedEvent ==
    [][(last'.op = "authenticate_product"
        /\ Contains(product_authentications, last'.product_id))
       => /\ last'.result = "Ok"
          /\ Len(events') = Len(events) + 1
          /\ IsPrefix(events, events')
          /\ events'[Len(events')].event = "ProductAuthenticated"
          /\ events'[Len(events')].product_id = last'.product_id
          /\ events'[Len(events')].authentic = last'.value]_vars

\* C18 witness: authenticate_product has just returned for a known product
\* and the last event of the log is its ProductAuthenticated event.
C18_Witness ==
    /\ last.op = "authenticate_product"
    /\ last.result = "Ok"
    /\ Len(events) >= 1
    /\ events[Len(events)].event = "ProductAuthenticated"
    /\ events[Len(events)].authentic = last.value

\* C19: a stored shipment for whose id a verify_delivery call has succeeded
\* has the status Verified, in the state the call leaves and in every later
\* one.
C19_VerifiedIsTerminal ==
    \A s \in DOMAIN shipments :
        VerifySucceeded(s) => shipments[s].status = "Verified"

\* C20: the escrow of a shipment id for which no update_shipment_status
\* call with a Delivered event has succeeded is Pending.
C20_StuckEscrowStaysPending ==
    \A s \in DOMAIN conditional_payments :
        ~DeliveredEventSeen(s) => conditional_payments[s].status = "Pending"

\* C20 witness: events other than Delivered have been applied to a shipment
\* (the last one a PickedUp), none of them a Delivered, and its escrow is
\* Pending.
C20_Witness ==
    /\ last.op = "update_shipment_status"
    /\ last.result = "Ok"
    /\ last.event.event_type = "PickedUp"
    /\ Len(shipments[last.shipment_id].tracking_data) >= 2
    /\ ~DeliveredEventSeen(last.shipment_id)
    /\ Contains(conditional_payments, last.shipment_id)
    /\ conditional_payments[last.shipment_id].status = "Pending"

\* C21: an update_shipment_status or verify_delivery call with a shipment
\* id that is not in the shipment store returns ShipmentNotFound and leaves
\* every store and the event log as they were.
C21_UnknownShipmentRejected ==
    [][(/\ last'.op \in {"update_shipment_status", "verify_delivery"}
        /\ ~Contains(shipments, last'.shipment_id))
       => (/\ last'.result = "ShipmentNotFound"
           /\ UNCHANGED <<stores, events>>)]_vars

\* C21 witness: update_shipment_status has just been refused for an id that
\* is not stored, while a shipment is stored under another id.
C21_Witness ==
    /\ last.op = "update_shipment_status"
    /\ last.result = "ShipmentNotFound"
    /\ ~Contains(shipments, last.shipment_id)
    /\ DOMAIN shipments # {}

\* C22: in every state the shipment store and the escrow store hold the
\* same shipment ids; a successful create_shipment puts the returned id in
\* both, and no other step changes the ids of either.
C22_ShipmentsPairedWithEscrows ==
    /\ [](DOMAIN shipments = DOMAIN conditional_payments)
    /\ [][IF last'.op = "create_shipment" /\ last'.result = "Ok"
          THEN /\ DOMAIN shipments' = DOMAIN shipments \cup {last'.shipment_id}
               /\ DOMAIN conditional_payments' =
                      DOMAIN conditional_payments \cup {last'.shipment_id}
          ELSE /\ DOMAIN shipments' = DOMAIN shipments
               /\ DOMAIN conditional_payments' =
                      DOMAIN conditional_payments]_vars

\* C22 witness: create_shipment has just succeeded, and the returned id is
\* in both stores.
C22_Witness ==
    /\ last.op = "create_shipment"
    /\ last.result = "Ok"
    /\ last.shipment_id \in DOMAIN shipments
    /\ last.shipment_id \in DOMAIN conditional_payments

\* C23: every shipment id with a stored DeliveryVerification record has a
\* stored shipment whose status is Delivered or Verified.
C23_VerifiedImpliesDelivered ==
    \A s \in DOMAIN delivery_verifications :
        /\ Contains(shipments, s)
        /\ shipments[s].status \in {"Delivered", "Verified"}

\* C24: in every step, each stored shipment stays stored with the order_id,
\* origin, destination, carrier and quantum_seal it had before the step, so
\* these fields are the ones written when the id was first created.
C24_CreationFieldsFixed ==
    [][\A s \in DOMAIN shipments :
          /\ s \in DOMAIN shipments'
          /\ shipments'[s].order_id = shipments[s].order_id
          /\ shipments'[s].origin = shipments[s].origin
          /\ shipments'[s].destination = shipments[s].destination
          /\ shipments'[s].carrier = shipments[s].carrier
          /\ shipments'[s].quantum_seal = shipments[s].quantum_seal]_vars

\* The entry of a Mapping under a key is the same before and after the step.
SameEntry(before, after, key) ==
    /\ (key \in DOMAIN after) = (key \in DOMAIN before)
    /\ key \in DOMAIN before => after[key] = before[key]

\* C25: update_shipment_status and verify_delivery on shipment id s leave
\* the shipment, escrow and verification of every other id, the order
\* catalog, the warehouse and carrier directories and the authentication
\* data as they were; authenticate_product leaves every shipment, escrow and
\* verification as it was.
C25_FrameOfCalls ==
    [][/\ last'.op \in {"update_shipment_status", "verify_delivery"}
          => /\ \A t \in ShipmentIds \ {last'.shipment_id} :
                    /\ SameEntry(shipments, shipments', t)
                    /\ SameEntry(conditional_payments,
                                 conditional_payments', t)
                    /\ SameEntry(delivery_verifications,
                                 delivery_verifications', t)
             /\ UNCHANGED <<fulfillment_orders, warehouses, carriers,
                            product_authentications, verification_keys>>
       /\ last'.op = "authenticate_product"
          => UNCHANGED <<shipments, conditional_payments,
                         delivery_verifications>>]_vars

\* C25 witness: update_shipment_status has just succeeded on a stored
\* shipment while the order catalog, the carrier directory and the
\* authentication data hold entries.
C25_Witness ==
    /\ last.op = "update_shipment_status"
    /\ last.result = "Ok"
    /\ Contains(shipments, last.shipment_id)
    /\ DOMAIN fulfillment_orders # {}
    /\ DOMAIN carriers # {}
    /\ DOMAIN product_authentications # {}

----------------------------------------------------------------------------
(* The KombuchaRegistry pallet (src/pallet/registry.rs) *)

\* Successful calls are explored until MaxDeposits events are deposited.
MaxDeposits == 3

\* Blocks are produced until the block number is MaxBlock.
MaxBlock == 3

\* T::MinFermentationPeriod::get(), a constant of the runtime configuration.
MinFermentationPeriod == 2

BatchIds == {<<1>>, <<2>>}
\* The expected completion blocks the calls are made with.
ExpectedCompletions == {1, 2}

\* Origins of a call: signed by an account, or not signed (none, root).
Origins ==
    {[signed |-> TRUE, who |-> a] : a \in AccountIds}
        \cup {[signed |-> FALSE, who |-> 0]}

\* The values of FermentationConditions the calls are made with.
FermentationConditions ==
    {[temperature |-> t, ph_level |-> 300, scoby_generation |-> 1,
      tea_hash |-> 0, sugar_source |-> <<>>, ingredients_hash |-> 0] :
        t \in {2500, 2600}}

RegistryError == {"BatchIdExists", "BatchNotFound",
                  "InvalidFermentationPeriod", "NotAuthorized",
                  "NotReadyForCertification", "ErrorCorrectionFailed",
                  "QuantumVerificationFailed"}

\* Option<Vec<u8>> of FermentationBatch.quantum_proof
None == [some |-> FALSE]
Some(v) == [some |-> TRUE, val |-> v]

\* ensure_signed(origin)
ensure_signed(origin) ==
    IF origin.signed THEN Ok(origin.who) ELSE Err("BadOrigin")

\* The error_correction module is declared by registry.rs but its source is
\* not part of the repository tree; the design notes describe its three
\* functions as passthroughs, so each accepts every batch id.
apply_classical_correction(batch_id) == Ok(batch_id)
apply_bridge_correction(batch_id) == Ok(batch_id)
apply_quantum_correction(batch_id) == Ok(batch_id)

\* The three corrections in sequence, each failure mapped to
\* ErrorCorrectionFailed.
apply_corrections(batch_id) ==
    IF /\ apply_classical_correction(batch_id).ok
       /\ apply_bridge_correction(batch_id).ok
       /\ apply_quantum_correction(batch_id).ok
    THEN Ok(batch_id)
    ELSE Err("ErrorCorrectionFailed")

\* T::Hashing::hash_of(&conditions): a digest determined by the encoded
\* conditions, taken as collision free.
hash_of(conditions) ==
    <<"H256", conditions.temperature, conditions.ph_level,
      conditions.scoby_generation, conditions.tea_hash,
      conditions.sugar_source, conditions.ingredients_hash>>

\* BrewerBatches::get(&sender): the stored list, or the empty list.
brewer_batches(lists, sender) ==
    IF Contains(lists, sender) THEN lists[sender] ELSE <<>>

\* Variant: the batch id is not looked for before the batch is stored.
batch_id_free_unchecked(batches, batch_id) == TRUE

\* !FermentationBatches::contains_key(&batch_id)
batch_id_free(batches, batch_id) == ~Contains(batches, batch_id)

\* The fermentation period check of register_batch.
valid_period(expected_completion, current_block) ==
    /\ expected_completion > current_block
    /\ expected_completion >= current_block + MinFermentationPeriod

\* Variant: a batch is ready as soon as its start block is reached.
ready_for_certification_started(current_block, batch) == current_block >= batch.start_block

\* current_block >= batch.expected_completion
ready_for_certification(current_block, batch) ==
    current_block >= batch.expected_completion

\* BatchCount::get().checked_add(1).unwrap_or_default(): the count plus one
\* (the fall back to 0 needs 2^64 - 1 registered batches, which is beyond
\* every bound explored here).
next_count(count) == count + 1

\* register_batch(origin, batch_id, expected_completion, conditions)
register_batch(origin, batch_id, expected_completion, conditions) ==
    LET call == [op |-> "register_batch", origin |-> origin,
                 batch_id |-> batch_id]
        sender == ensure_signed(origin)
        current_block == block_number
        corrected == apply_corrections(batch_id)
        conditions_hash == hash_of(conditions)
    IN
    IF ~sender.ok
    THEN /\ last' = call @@ [result |-> sender.err]
         /\ UNCHANGED <<registry, events>>
    ELSE IF ~batch_id_free(FermentationBatches, batch_id)
    THEN /\ last' = call @@ [result |-> "BatchIdExists"]
         /\ UNCHANGED <<registry, events>>
    ELSE IF ~valid_period(expected_completion, current_block)
    THEN /\ last' = call @@ [result |-> "InvalidFermentationPeriod"]
         /\ UNCHANGED <<registry, events>>
    ELSE IF ~corrected.ok
    THEN /\ last' = call @@ [result |-> corrected.err]
         /\ UNCHANGED <<registry, events>>
    ELSE
    LET batch == [brewer |-> sender.val,
                  batch_id |-> batch_id,
                  start_block |-> current_block,
                  expected_completion |-> expected_completion,
                  conditions_hash |-> conditions_hash,
                  certified |-> FALSE,
                  quantum_proof |-> None]
    IN
    /\ Len(events) < MaxDeposits
    /\ FermentationConditionsList' =
           Insert(FermentationConditionsList, conditions_hash, conditions)
    /\ FermentationBatches' = Insert(FermentationBatches, batch_id, batch)
    /\ BrewerBatches' =
           Insert(BrewerBatches, sender.val,
                  Append(brewer_batches(BrewerBatches, sender.val), batch_id))
    /\ BatchCount' = next_count(BatchCount)
    /\ events' = Append(events, [event |-> "BatchRegistered",
                                 who |-> sender.val, batch_id |-> batch_id])
    /\ last' = call @@ [result |-> "Ok"]
    /\ UNCHANGED block_number

\* update_conditions(origin, batch_id, conditions)
update_conditions(origin, batch_id, conditions) ==
    LET call == [op |-> "update_conditions", origin |-> origin,
                 batch_id |-> batch_id]
        sender == ensure_signed(origin)
        corrected == apply_corrections(batch_id)
        conditions_hash == hash_of(conditions)
    IN
    IF ~sender.ok
    THEN /\ last' = call @@ [result |-> sender.err]
         /\ UNCHANGED <<registry, events>>
    ELSE IF ~Contains(FermentationBatches, batch_id)
    THEN /\ last' = call @@ [result |-> "BatchNotFound"]
         /\ UNCHANGED <<registry, events>>
    ELSE
    LET batch == FermentationBatches[batch_id]
    IN
    IF batch.brewer # sender.val
    THEN /\ last' = call @@ [result |-> "NotAuthorized"]
         /\ UNCHANGED <<registry, events>>
    ELSE IF ~corrected.ok
    THEN /\ last' = call @@ [result |-> corrected.err]
         /\ UNCHANGED <<registry, events>>
    ELSE
    /\ Len(events) < MaxDeposits
    /\ FermentationConditionsList' =
           Insert(FermentationConditionsList, conditions_hash, conditions)
    /\ FermentationBatches' =
           Insert(FermentationBatches, batch_id,
                  [batch EXCEPT !.conditions_hash = conditions_hash])
    /\ events' = Append(events, [event |-> "ConditionsUpdated",
                                 batch_id |-> batch_id,
                                 conditions_hash |-> conditions_hash])
    /\ last' = call @@ [result |-> "Ok"]
    /\ UNCHANGED <<BrewerBatches, BatchCount, block_number>>

\* certify_batch(origin, batch_id, quantum_proof)
certify_batch(origin, batch_id, quantum_proof) ==
    LET call == [op |-> "certify_batch", origin |-> origin,
                 batch_id |-> batch_id, quantum_proof |-> quantum_proof]
        sender == ensure_signed(origin)
        current_block == block_number
        corrected == apply_corrections(batch_id)
    IN
    IF ~sender.ok
    THEN /\ last' = call @@ [result |-> sender.err]
         /\ UNCHANGED <<registry, events>>
    ELSE IF ~Contains(FermentationBatches, batch_id)
    THEN /\ last' = call @@ [result |-> "BatchNotFound"]
         /\ UNCHANGED <<registry, events>>
    ELSE
    LET batch == FermentationBatches[batch_id]
    IN
    IF batch.brewer # sender.val
    THEN /\ last' = call @@ [result |-> "NotAuthorized"]
         /\ UNCHANGED <<registry, events>>
    ELSE IF ~ready_for_certification(current_block, batch)
    THEN /\ last' = call @@ [result |-> "NotReadyForCertification"]
         /\ UNCHANGED <<registry, events>>
    ELSE IF ~corrected.ok
    THEN /\ last' = call @@ [result |-> corrected.err]
         /\ UNCHANGED <<registry, events>>
    ELSE IF quantum_proof = <<>>
    THEN /\ last' = call @@ [result |-> "QuantumVerificationFailed"]
         /\ UNCHANGED <<registry, events>>
    ELSE
    /\ Len(events) < MaxDeposits
    /\ FermentationBatches' =
           Insert(FermentationBatches, batch_id,
                  [batch EXCEPT !.certified = TRUE,
                                !.quantum_proof = Some(quantum_proof)])
    /\ events' = Append(events, [event |-> "BatchCertified",
                                 batch_id |-> batch_id])
    /\ last' = call @@ [result |-> "Ok"]
    /\ UNCHANGED <<FermentationConditionsList, BrewerBatches, BatchCount,
                   block_number>>

\* The chain produces the next block: block_number() is one higher.
next_block ==
    /\ block_number < MaxBlock
    /\ block_number' = block_number + 1
    /\ last' = [op |-> "next_block", result |-> "Ok"]
    /\ UNCHANGED <<FermentationBatches, FermentationConditionsList,
                   BrewerBatches, BatchCount, events>>

\* The contract is deployed with new() and never called; the pallet starts
\* at genesis.
InitRegistry ==
    /\ shipments = EmptyMapping
    /\ fulfillment_orders = EmptyMapping
    /\ delivery_verifications = EmptyMapping
    /\ warehouses = EmptyMapping
    /\ carriers = EmptyMapping
    /\ product_authentications = EmptyMapping
    /\ verification_keys = EmptyMapping
    /\ conditional_payments = EmptyMapping
    /\ events = <<>>
    /\ last = [op |-> "genesis", result |-> "Ok"]
    /\ Genesis

RegisterBatch ==
    \E origin \in Origins, batch_id \in BatchIds,
       expected_completion \in ExpectedCompletions,
       conditions \in FermentationConditions :
        /\ register_batch(origin, batch_id, expected_completion, conditions)
        /\ UNCHANGED stores

UpdateConditions ==
    \E origin \in Origins, batch_id \in BatchIds,
       conditions \in FermentationConditions :
        /\ update_conditions(origin, batch_id, conditions)
        /\ UNCHANGED stores

CertifyBatch ==
    \E origin \in Origins, batch_id \in BatchIds,
       quantum_proof \in ByteStrings :
        /\ certify_batch(origin, batch_id, quantum_proof)
        /\ UNCHANGED stores

NextBlock ==
    /\ next_block
    /\ UNCHANGED stores

NextRegistry ==
    \/ RegisterBatch
    \/ UpdateConditions
    \/ CertifyBatch
    \/ NextBlock

SpecRegistry == InitRegistry /\ [][NextRegistry]_vars

----------------------------------------------------------------------------
(* Properties of the pallet *)

\* C26: register_batch with a batch id that is already registered returns
\* BatchIdExists (BadOrigin when the origin is not signed) and leaves
\* FermentationBatches, BrewerBatches and BatchCount as they were; and in
\* every step each registered batch stays registered with the same brewer.
C26_DuplicateBatchRejected ==
    [][/\ (/\ last'.op = "register_batch"
           /\ Contains(FermentationBatches, last'.batch_id))
          => /\ last'.origin.signed => last'.result = "BatchIdExists"
             /\ last'.result # "Ok"
             /\ UNCHANGED <<FermentationBatches, BrewerBatches, BatchCount>>
       /\ \A b \in DOMAIN FermentationBatches :
              /\ b \in DOMAIN FermentationBatches'
              /\ FermentationBatches'[b].brewer =
                     FermentationBatches[b].brewer]_vars

\* C26 witness: an account that is not the brewer of a registered batch has
\* just called register_batch with that batch id and got BatchIdExists.
C26_Witness ==
    /\ last.op = "register_batch"
    /\ last.result = "BatchIdExists"
    /\ Contains(FermentationBatches, last.batch_id)
    /\ FermentationBatches[last.batch_id].brewer # last.origin.who
    /\ BatchCount = 1

\* The batch id is registered and its certified flag is set.
Certified(batches, batch_id) ==
    /\ Contains(batches, batch_id)
    /\ batches[batch_id].certified

\* C27: a batch becomes certified only in a successful certify_batch step
\* on that batch, signed by its brewer, at a block not before its
\* expected_completion, with a non-empty proof; a signed certify_batch on a
\* registered batch that misses one of these returns NotAuthorized,
\* NotReadyForCertification or QuantumVerificationFailed and leaves the
\* batches unchanged; a certified batch stays certified in every step.
C27_CertifiedOnlyByBrewerWhenReady ==
    [][/\ \A b \in BatchIds :
              (~Certified(FermentationBatches, b)
                   /\ Certified(FermentationBatches', b))
              => /\ last'.op = "certify_batch"
                 /\ last'.batch_id = b
                 /\ last'.result = "Ok"
                 /\ Contains(FermentationBatches, b)
                 /\ last'.origin.signed
                 /\ last'.origin.who = FermentationBatches[b].brewer
                 /\ block_number >= FermentationBatches[b].expected_completion
                 /\ last'.quantum_proof # <<>>
       /\ (/\ last'.op = "certify_batch"
           /\ last'.origin.signed
           /\ Contains(FermentationBatches, last'.batch_id))
          => LET batch == FermentationBatches[last'.batch_id]
             IN  IF last'.origin.who # batch.brewer
                 THEN /\ last'.result = "NotAuthorized"
                      /\ UNCHANGED FermentationBatches
                 ELSE IF block_number < batch.expected_completion
                 THEN /\ last'.result = "NotReadyForCertification"
                      /\ UNCHANGED FermentationBatches
                 ELSE IF last'.quantum_proof = <<>>
                 THEN /\ last'.result = "QuantumVerificationFailed"
                      /\ UNCHANGED FermentationBatches
                 ELSE /\ last'.result = "Ok"
                      /\ Certified(FermentationBatches', last'.batch_id)
       /\ \A b \in BatchIds :
              Certified(FermentationBatches, b)
                  => Certified(FermentationBatches', b)]_vars

\* C27 witness: a batch that was certified earlier is still certified after
\* its brewer has updated its conditions.
C27_Witness ==
    /\ last.op = "update_conditions"
    /\ last.result = "Ok"
    /\ Certified(FermentationBatches, last.batch_id)
    /\ FermentationBatches[last.batch_id].brewer = last.origin.who
    /\ block_number >= FermentationBatches[last.batch_id].expected_completion
    /\ FermentationBatches[last.batch_id].quantum_proof # None

====
